---------------------------- MODULE Spec2Model ----------------------------
(***************************************************************************)
(* Job-completion notification core of ChatToMusic                         *)
(* (Chat_to_music/backend/src/index.ts): the result store, the SSE         *)
(* subscriber registry, pushSSE, and the /events, /suno/callback and       *)
(* /status handlers.                                                       *)
(*                                                                         *)
(* Node runs each handler to completion on one thread, so a handler is one *)
(* atomic action; the only suspension point on the server is the           *)
(* `await axios.get` of /status, which splits that handler in two actions. *)
(***************************************************************************)
EXTENDS Integers, Sequences, FiniteSets, TLC

(* ------------------------------ bounds --------------------------------- *)
\* longest comma-separated id list of a request, longest webhook clip list,
\* longest upstream clip list
MaxLen == 2
\* number of requests the server receives in one run
MaxRequests == 3

Ids == {"a", "b"}
Conns == {"c1", "c2"}
StatusReqs == {"s1"}

(* ------------------------------ values --------------------------------- *)
\* "" is the absent / falsy string: `!id`, `x || y` and filter(Boolean)
\* treat a missing field and an empty string alike.
MaybeIds == Ids \cup {""}

\* JavaScript `undefined` (clips[0] of an empty array)
Undefined == [undefined |-> TRUE]
\* a clip object, with the fields the server reads
Clip(id, clipId, status, title) ==
    [id |-> id, clipId |-> clipId, status |-> status, title |-> title]

\* clip entries a webhook may carry in payload.data.data
CallbackClips == {Clip("k1", "", "complete", "t1"), Clip("k2", "", "complete", "t1")}

\* elements the upstream status query may return
UpstreamClips ==
    {Clip(i, "", "complete", "t2") : i \in MaybeIds}
    \cup {Clip("", "b", "complete", "t2"), Clip("a", "", "pending", "t2")}

SeqsUpTo(S, n) == UNION {[1..k -> S] : k \in 0..n}

(* --------------------------- JSON.stringify ---------------------------- *)
\* { data: { data: [clips] } }, the object the webhook handler pushes
Wrapped(clips) == [data |-> [data |-> <<clips>>]]

\* The text JSON.stringify produces, as a sequence of tokens.  Absent
\* fields are omitted; `undefined` interpolates as the text "undefined".
StringifyField(name, v) == IF v = "" THEN <<>> ELSE <<name, v>>

StringifyClip(v) ==
    IF v = Undefined THEN <<"undefined">>
    ELSE <<"{">> \o StringifyField("id", v.id)
                 \o StringifyField("clipId", v.clipId)
                 \o StringifyField("status", v.status)
                 \o StringifyField("title", v.title) \o <<"}">>

RECURSIVE StringifyArray(_)
StringifyArray(arr) ==
    IF arr = <<>> THEN <<>>
    ELSE StringifyClip(Head(arr)) \o StringifyArray(Tail(arr))

JSONstringify(v) ==
    IF "data" \in DOMAIN v
    THEN <<"{", "data", "{", "data", "[", "[">>
             \o StringifyArray(v.data.data[1]) \o <<"]", "]", "}", "}">>
    ELSE StringifyClip(v)

(* -------------------------- request parsing ---------------------------- *)
\* One comma-separated segment of a query parameter: its text, possibly
\* surrounded by white space.
Segments ==
    {[ws |-> FALSE, text |-> t] : t \in MaybeIds}
    \cup {[ws |-> TRUE, text |-> "a"], [ws |-> TRUE, text |-> ""]}
Trim(seg) == seg.text

\* raw.split(',').map(i => i.trim()).filter(Boolean); a missing parameter
\* is '' and splits into one empty segment.
RECURSIVE ParseIds(_)
ParseIds(raw) ==
    IF raw = <<>> THEN <<>>
    ELSE IF Trim(Head(raw)) = "" THEN ParseIds(Tail(raw))
    ELSE <<Trim(Head(raw))>> \o ParseIds(Tail(raw))

RawParams == UNION {[1..k -> Segments] : k \in 1..MaxLen}

(* ------------------------------- state --------------------------------- *)
VARIABLES
    resultsStore,   \* Map clipId -> record: a function on the stored keys
    subscribers,    \* Map clipId -> Array<Response>: a function on its keys
    connState,      \* per /events connection slot: new, open, broken
    connIds,        \* per connection: the clipIds captured by its close handler
    channel,        \* per connection: the events written to it, in order
    statusReq,      \* per /status request: pc, the locals live across the await,
                    \* and whether its catch block logged 'Status fetch error'
    lastResponse,   \* the HTTP response of the handler that ran last
    nRequests       \* requests received so far

\* the browser client: one run of handleGenerateMusicFromEmotion
VARIABLES
    handlerPc,          \* idle, awaitGenerate (at the await of line 38), returned
    isGeneratingMusic,  \* the React state flag
    messages,           \* the React message list
    es,                 \* the EventSource: none, open, closed
    timers,             \* pending setTimeout timers: a function name -> deadline
    pollPc,             \* fallbackPoll: none, fetching, sleeping, returned
    attempts,           \* fallbackPoll's counter
    statusCalls,        \* GET /status requests issued so far
    now,                \* the clock the timers run on, in ms
    abandoned           \* the caller has left: the component is unmounted

serverVars == <<resultsStore, subscribers, connState, connIds, channel,
                statusReq, lastResponse, nRequests>>

clientVars == <<handlerPc, isGeneratingMusic, messages, es, timers, pollPc,
                attempts, statusCalls, now, abandoned>>

vars == <<serverVars, clientVars>>

\* Map operations
MapHas(m, k) == k \in DOMAIN m
MapSet(m, k, v) == [x \in DOMAIN m \cup {k} |-> IF x = k THEN v ELSE m[x]]
MapDelete(m, k) == [x \in DOMAIN m \ {k} |-> m[x]]
EmptyMap == [x \in {} |-> Undefined]

\* an SSE frame `event: <event>\ndata: <data>\n\n`; job is the key the frame
\* was written for (not on the wire, kept to state per-job properties)
Frame(job, event, data) == [job |-> job, event |-> event, data |-> data]

\* no setTimeout pending
NoTimers == [x \in {} |-> 0]

NoResponse == [route |-> "", status |-> 0, found |-> <<>>, pending |-> <<>>]

Init ==
    /\ resultsStore = EmptyMap
    /\ subscribers = EmptyMap
    /\ connState = [c \in Conns |-> "new"]
    /\ connIds = [c \in Conns |-> <<>>]
    /\ channel = [c \in Conns |-> <<>>]
    /\ statusReq = [s \in StatusReqs |->
                       [pc |-> "idle", ids |-> <<>>, found |-> <<>>,
                        pending |-> <<>>, logged |-> FALSE]]
    /\ lastResponse = NoResponse
    /\ nRequests = 0
    /\ handlerPc = "idle"
    /\ isGeneratingMusic = FALSE
    /\ messages = <<>>
    /\ es = "none"
    /\ timers = NoTimers
    /\ pollPc = "none"
    /\ attempts = 0
    /\ statusCalls = 0
    /\ now = 0
    /\ abandoned = FALSE


(* ------------------------------ pushSSE -------------------------------- *)
\* try { res.write(payload); } catch (_) { }
\* A write on a connection whose transport is gone fails and is swallowed.
TryWrite(ch, cs, res, frame) ==
    IF cs[res] = "open" THEN [ch EXCEPT ![res] = Append(@, frame)] ELSE ch

\* subs.forEach without the try/catch around res.write: the first failing
\* write throws out of the loop
RECURSIVE WriteAllStopsOnFailure(_, _, _, _)
WriteAllStopsOnFailure(subs, frame, cs, ch) ==
    IF subs = <<>> THEN ch
    ELSE IF cs[Head(subs)] # "open" THEN ch
    ELSE WriteAllStopsOnFailure(Tail(subs), frame, cs,
                                TryWrite(ch, cs, Head(subs), frame))

\* subs.forEach(res => ...)
RECURSIVE WriteAll(_, _, _, _)
WriteAll(subs, frame, cs, ch) ==
    IF subs = <<>> THEN ch
    ELSE WriteAll(Tail(subs), frame, cs, TryWrite(ch, cs, Head(subs), frame))

\* pushSSE without `subscribers.delete(clipId)`
pushSSEKeepsEntry(clipId, event, data, reg, cs, ch) ==
    IF ~MapHas(reg, clipId) THEN [subscribers |-> reg, channel |-> ch]
    ELSE [subscribers |-> reg,
          channel |-> WriteAll(reg[clipId],
                               Frame(clipId, event, JSONstringify(data)), cs, ch)]

\* pushSSE that, on `complete`, also unregisters the notified listeners from
\* every other entry of the registry
pushSSEDropsListeners(clipId, event, data, reg, cs, ch) ==
    IF ~MapHas(reg, clipId) THEN [subscribers |-> reg, channel |-> ch]
    ELSE LET subs == reg[clipId]
             rest == MapDelete(reg, clipId)
             kept(k) == SelectSeq(rest[k],
                                  LAMBDA r : \A i \in 1..Len(subs) : subs[i] # r)
         IN [subscribers |->
                IF event = "complete"
                THEN [k \in {x \in DOMAIN rest : kept(x) # <<>>} |-> kept(k)]
                ELSE reg,
             channel |-> WriteAll(subs, Frame(clipId, event, JSONstringify(data)),
                                  cs, ch)]

\* pushSSE(clipId, event, data) on registry reg and channels ch
pushSSE(clipId, event, data, reg, cs, ch) ==
    IF ~MapHas(reg, clipId) THEN [subscribers |-> reg, channel |-> ch]
    ELSE [subscribers |-> IF event = "complete" THEN MapDelete(reg, clipId)
                                                ELSE reg,
          channel |-> WriteAll(reg[clipId],
                               Frame(clipId, event, JSONstringify(data)), cs, ch)]

(* ------------------------------ /events -------------------------------- *)
\* the attach loop without its `else`: an already resolved id is sent and
\* subscribed as well
RECURSIVE AttachAlwaysSubscribes(_, _, _, _, _)
AttachAlwaysSubscribes(clipIds, res, store, reg, ch) ==
    IF clipIds = <<>> THEN [subscribers |-> reg, channel |-> ch]
    ELSE LET id == Head(clipIds)
             arr == IF MapHas(reg, id) THEN reg[id] ELSE <<>>
         IN AttachAlwaysSubscribes(Tail(clipIds), res, store,
                MapSet(reg, id, Append(arr, res)),
                IF MapHas(store, id)
                THEN [ch EXCEPT ![res] =
                        Append(@, Frame(id, "complete", JSONstringify(store[id])))]
                ELSE ch)

\* clipIds.forEach(id => { fast path | subscribe }) for connection res
RECURSIVE Attach(_, _, _, _, _)
Attach(clipIds, res, store, reg, ch) ==
    IF clipIds = <<>> THEN [subscribers |-> reg, channel |-> ch]
    ELSE LET id == Head(clipIds) IN
         IF MapHas(store, id)
         THEN Attach(Tail(clipIds), res, store, reg,
                     [ch EXCEPT ![res] =
                         Append(@, Frame(id, "complete", JSONstringify(store[id])))])
         ELSE LET arr == IF MapHas(reg, id) THEN reg[id] ELSE <<>> IN
              Attach(Tail(clipIds), res, store,
                     MapSet(reg, id, Append(arr, res)), ch)

Events(res, raw) ==
    /\ UNCHANGED clientVars
    /\ nRequests < MaxRequests
    /\ nRequests' = nRequests + 1
    /\ connState[res] = "new"
    /\ LET clipIds == ParseIds(raw) IN
       IF clipIds = <<>>
       THEN /\ lastResponse' = [route |-> "/events", status |-> 400,
                                found |-> <<>>, pending |-> <<>>]
            /\ UNCHANGED <<resultsStore, subscribers, connState, connIds,
                           channel, statusReq>>
       ELSE LET r == Attach(clipIds, res, resultsStore, subscribers, channel) IN
            /\ connState' = [connState EXCEPT ![res] = "open"]
            /\ connIds' = [connIds EXCEPT ![res] = clipIds]
            /\ subscribers' = r.subscribers
            /\ channel' = r.channel
            /\ lastResponse' = [route |-> "/events", status |-> 200,
                                found |-> <<>>, pending |-> <<>>]
            /\ UNCHANGED <<resultsStore, statusReq>>

\* arr.filter(r => r !== res)
RECURSIVE Without(_, _)
Without(arr, res) ==
    IF arr = <<>> THEN <<>>
    ELSE IF Head(arr) = res THEN Without(Tail(arr), res)
    ELSE <<Head(arr)>> \o Without(Tail(arr), res)

\* the close handler cleaning clipIds[0] only, in place of the forEach
CleanupFirstIdOnly(clipIds, res, reg) ==
    IF clipIds = <<>> THEN reg
    ELSE LET id == Head(clipIds) IN
         IF ~MapHas(reg, id) THEN reg
         ELSE LET filtered == Without(reg[id], res) IN
              IF Len(filtered) > 0 THEN MapSet(reg, id, filtered)
                                   ELSE MapDelete(reg, id)

\* the close handler that always stores the filtered list, without the
\* `else subscribers.delete(id)` branch
RECURSIVE CleanupKeepsEmpty(_, _, _)
CleanupKeepsEmpty(clipIds, res, reg) ==
    IF clipIds = <<>> THEN reg
    ELSE LET id == Head(clipIds) IN
         IF ~MapHas(reg, id) THEN CleanupKeepsEmpty(Tail(clipIds), res, reg)
         ELSE CleanupKeepsEmpty(Tail(clipIds), res,
                                MapSet(reg, id, Without(reg[id], res)))

\* the body of req.on('close'): clipIds.forEach(id => ...)
RECURSIVE Cleanup(_, _, _)
Cleanup(clipIds, res, reg) ==
    IF clipIds = <<>> THEN reg
    ELSE LET id == Head(clipIds) IN
         IF ~MapHas(reg, id) THEN Cleanup(Tail(clipIds), res, reg)
         ELSE LET filtered == Without(reg[id], res) IN
              Cleanup(Tail(clipIds), res,
                      IF Len(filtered) > 0 THEN MapSet(reg, id, filtered)
                                           ELSE MapDelete(reg, id))

\* the transport of an open connection goes away; its 'close' event has
\* not been dispatched yet
Break(res) ==
    /\ UNCHANGED clientVars
    /\ connState[res] = "open"
    /\ connState' = [connState EXCEPT ![res] = "broken"]
    /\ UNCHANGED <<resultsStore, subscribers, connIds, channel, statusReq,
                   lastResponse, nRequests>>

\* req 'close' is dispatched: the handler runs and the request is over,
\* which frees the slot for a later connection
Close(res) ==
    /\ UNCHANGED clientVars
    /\ connState[res] \in {"open", "broken"}
    /\ connState' = [connState EXCEPT ![res] = "new"]
    /\ subscribers' = Cleanup(connIds[res], res, subscribers)
    /\ connIds' = [connIds EXCEPT ![res] = <<>>]
    /\ channel' = [channel EXCEPT ![res] = <<>>]
    /\ UNCHANGED <<resultsStore, statusReq, lastResponse, nRequests>>

(* --------------------------- /suno/callback ---------------------------- *)
\* req.body: hasData says payload.data exists, isArray says
\* payload.data.data is an array (clips), dataTaskId is payload.data.task_id
\* and taskId is payload.task_id
Payloads ==
    {[hasData |-> TRUE, isArray |-> TRUE, clips |-> cl, dataTaskId |-> d, taskId |-> t] :
        cl \in SeqsUpTo(CallbackClips, MaxLen), d \in MaybeIds, t \in MaybeIds}
    \cup {[hasData |-> TRUE, isArray |-> FALSE, clips |-> <<>>, dataTaskId |-> d, taskId |-> t] :
        d \in MaybeIds, t \in MaybeIds}
    \cup {[hasData |-> FALSE, isArray |-> FALSE, clips |-> <<>>, dataTaskId |-> "", taskId |-> t] :
        t \in MaybeIds}

\* clips[0]
First(clips) == IF clips = <<>> THEN Undefined ELSE clips[1]

\* payload?.data.task_id || payload?.task_id
TaskId(payload) ==
    IF payload.dataTaskId # "" THEN payload.dataTaskId ELSE payload.taskId

Callback(payload) ==
    /\ UNCHANGED clientVars
    /\ nRequests < MaxRequests
    /\ nRequests' = nRequests + 1
    /\ payload \in Payloads
    /\ IF ~(payload.hasData /\ payload.isArray)
       THEN /\ lastResponse' = [route |-> "/suno/callback", status |-> 400,
                                found |-> <<>>, pending |-> <<>>]
            /\ UNCHANGED <<resultsStore, subscribers, connState, connIds,
                           channel, statusReq>>
       ELSE LET id == TaskId(payload) IN
            IF id = ""
            THEN \* `return;` without sending a response
                 /\ lastResponse' = [route |-> "/suno/callback", status |-> 0,
                                     found |-> <<>>, pending |-> <<>>]
                 /\ UNCHANGED <<resultsStore, subscribers, connState, connIds,
                                channel, statusReq>>
            ELSE LET r == pushSSE(id, "complete", Wrapped(payload.clips),
                                  subscribers, connState, channel) IN
                 /\ resultsStore' = MapSet(resultsStore, id, First(payload.clips))
                 /\ subscribers' = r.subscribers
                 /\ channel' = r.channel
                 /\ lastResponse' = [route |-> "/suno/callback", status |-> 200,
                                     found |-> <<>>, pending |-> <<>>]
                 /\ UNCHANGED <<connState, connIds, statusReq>>

(* ------------------------------- /status ------------------------------- *)
\* the partition loop without its `else`: every id is pushed to pending
RECURSIVE PartitionAllPending(_, _, _)
PartitionAllPending(ids, store, acc) ==
    IF ids = <<>> THEN acc
    ELSE LET id == Head(ids) IN
         PartitionAllPending(Tail(ids), store,
             [found |-> IF MapHas(store, id) THEN Append(acc.found, store[id])
                                             ELSE acc.found,
              pending |-> Append(acc.pending, id)])

\* ids.forEach(id => { found.push(...) | pending.push(id) })
RECURSIVE Partition(_, _, _)
Partition(ids, store, acc) ==
    IF ids = <<>> THEN acc
    ELSE LET id == Head(ids) IN
         Partition(Tail(ids), store,
                   IF MapHas(store, id)
                   THEN [acc EXCEPT !.found = Append(@, store[id])]
                   ELSE [acc EXCEPT !.pending = Append(@, id)])

\* what `await axios.get(...)` yields: a rejection, or r.data as an array,
\* as an object with a clips list, or as an object without one
Replies ==
    {[kind |-> "reject", clips |-> <<>>], [kind |-> "noclips", clips |-> <<>>]}
    \cup {[kind |-> k, clips |-> cl] :
            k \in {"array", "object"}, cl \in SeqsUpTo(UpstreamClips, MaxLen)}

\* Array.isArray(r.data) ? r.data : r.data.clips || []
ListOf(reply) == IF reply.kind = "noclips" THEN <<>> ELSE reply.clips

\* clip.id || clip.clipId
ClipId(clip) == IF clip.id # "" THEN clip.id ELSE clip.clipId

\* list.forEach((clip) => { ... }); st holds the store, the registry, the
\* channels and `found`
RECURSIVE ForEachClip(_, _, _)
ForEachClip(list, cs, st) ==
    IF list = <<>> THEN st
    ELSE LET clip == Head(list) IN
         IF clip.status = "complete"
         THEN LET id == ClipId(clip) IN
              IF id = "" THEN ForEachClip(Tail(list), cs, st)
              ELSE LET r == pushSSE(id, "complete", clip, st.subscribers, cs,
                                    st.channel) IN
                   ForEachClip(Tail(list), cs,
                       [st EXCEPT !.resultsStore = MapSet(@, id, clip),
                                  !.found = Append(@, clip),
                                  !.subscribers = r.subscribers,
                                  !.channel = r.channel])
         ELSE ForEachClip(Tail(list), cs, st)

\* /status up to the await (or to the response when nothing is pending)
StatusBegin(s, raw) ==
    /\ UNCHANGED clientVars
    /\ nRequests < MaxRequests
    /\ nRequests' = nRequests + 1
    /\ statusReq[s].pc = "idle"
    /\ LET ids == ParseIds(raw) IN
       IF ids = <<>>
       THEN /\ lastResponse' = [route |-> "/status", status |-> 400,
                                found |-> <<>>, pending |-> <<>>]
            /\ UNCHANGED <<resultsStore, subscribers, connState, connIds,
                           channel, statusReq>>
       ELSE LET part == Partition(ids, resultsStore,
                                  [found |-> <<>>, pending |-> <<>>]) IN
            IF Len(part.pending) > 0
            THEN /\ statusReq' = [statusReq EXCEPT ![s] =
                                    [pc |-> "awaiting", ids |-> ids,
                                     found |-> part.found,
                                     pending |-> part.pending,
                                     logged |-> FALSE]]
                 /\ UNCHANGED <<resultsStore, subscribers, connState, connIds,
                                channel, lastResponse>>
            ELSE /\ lastResponse' = [route |-> "/status", status |-> 200,
                                     found |-> part.found,
                                     pending |-> part.pending]
                 /\ UNCHANGED <<resultsStore, subscribers, connState, connIds,
                                channel, statusReq>>

\* /status from the completion of the await to res.json({ found, pending })
StatusResume(s, reply) ==
    /\ UNCHANGED clientVars
    /\ statusReq[s].pc = "awaiting"
    /\ reply \in Replies
    /\ LET st0 == [resultsStore |-> resultsStore, subscribers |-> subscribers,
                   channel |-> channel, found |-> statusReq[s].found]
           st == IF reply.kind = "reject" THEN st0
                 ELSE ForEachClip(ListOf(reply), connState, st0)
       IN /\ resultsStore' = st.resultsStore
          /\ subscribers' = st.subscribers
          /\ channel' = st.channel
          /\ lastResponse' = [route |-> "/status", status |-> 200,
                              found |-> st.found,
                              pending |-> statusReq[s].pending]
          /\ statusReq' = [statusReq EXCEPT ![s] =
                             [pc |-> "idle", ids |-> <<>>, found |-> <<>>,
                              pending |-> <<>>,
                              logged |-> (reply.kind = "reject")]]
          /\ UNCHANGED <<connState, connIds, nRequests>>

(* --------------------------- specification ----------------------------- *)
Next ==
    \/ \E res \in Conns, raw \in RawParams : Events(res, raw)
    \/ \E res \in Conns : Break(res)
    \/ \E res \in Conns : Close(res)
    \/ \E payload \in Payloads : Callback(payload)
    \/ \E s \in StatusReqs, raw \in RawParams : StatusBegin(s, raw)
    \/ \E s \in StatusReqs, reply \in Replies : StatusResume(s, reply)

Spec == Init /\ [][Next]_vars

\* The same server when the third-party service only sends webhooks of the
\* documented shape: a non-empty clip list and a task id.
WellFormed(payload) ==
    /\ payload.hasData
    /\ payload.isArray
    /\ payload.clips # <<>>
    /\ (payload.dataTaskId # "" \/ payload.taskId # "")

NextWellFormed ==
    \/ \E res \in Conns, raw \in RawParams : Events(res, raw)
    \/ \E res \in Conns : Break(res)
    \/ \E res \in Conns : Close(res)
    \/ \E payload \in Payloads : WellFormed(payload) /\ Callback(payload)
    \/ \E s \in StatusReqs, raw \in RawParams : StatusBegin(s, raw)
    \/ \E s \in StatusReqs, reply \in Replies : StatusResume(s, reply)

SpecWellFormed == Init /\ [][NextWellFormed]_vars

(* ------------------------------- client -------------------------------- *)
\* const SSE_TIMEOUT = 120_000
SSE_TIMEOUT == 120000
\* const maxAttempts = 30
maxAttempts == 30
\* const pollInterval = 5000
pollInterval == 5000

\* a chat message; title is the song title a bot message announces
Message(sender, text, title) == [sender |-> sender, text |-> text, title |-> title]

\* setMessages(prev => [...prev, m]); a state update of an unmounted
\* component is dropped by React
setMessages(m) == IF abandoned THEN messages ELSE Append(messages, m)

\* setIsGeneratingMusic(v)
setIsGeneratingMusic(v) == IF abandoned THEN isGeneratingMusic ELSE v

\* what the await of fetch('/generate-from-emotion') and of resp.json()
\* yields: a rejected fetch, a non-2xx answer, or { clipIds: [taskId] }
GenerateReplies ==
    {[kind |-> "reject", clipIds |-> <<>>], [kind |-> "notok", clipIds |-> <<>>]}
    \cup {[kind |-> "ok", clipIds |-> <<j>>] : j \in Ids}

\* the records /status can list in `found`
FoundRecords ==
    CallbackClips \cup {u \in UpstreamClips : u.status = "complete" /\ ClipId(u) # ""}

\* what the await of fetch('/status?ids=...') and of s.json() yields
StatusReplies ==
    {[kind |-> "reject", found |-> <<>>], [kind |-> "notok", found |-> <<>>]}
    \cup {[kind |-> "ok", found |-> f] : f \in SeqsUpTo(FoundRecords, MaxLen)}

\* the data of the `complete` frames the server writes: the wrapped clip
\* list pushed by the webhook handler, the record pushed by /status, and the
\* stored record written by the fast path of /events
EventData ==
    {JSONstringify(Wrapped(cl)) : cl \in SeqsUpTo(CallbackClips, MaxLen)}
    \cup {JSONstringify(First(cl)) : cl \in SeqsUpTo(CallbackClips, MaxLen)}
    \cup {JSONstringify(u) : u \in FoundRecords}

\* the values whose JSON text the client may be handed
JsonValues ==
    {Wrapped(cl) : cl \in SeqsUpTo(CallbackClips, MaxLen)}
    \cup CallbackClips \cup UpstreamClips

\* JSON.parse(text): the value with that text; the text `undefined` (and
\* any other text that is no JSON) is a SyntaxError
JSONparse(text) ==
    IF \E v \in JsonValues : JSONstringify(v) = text
    THEN [ok |-> TRUE, value |-> CHOOSE v \in JsonValues : JSONstringify(v) = text]
    ELSE [ok |-> FALSE, value |-> Undefined]

\* the try block of the `complete` listener: the messages it adds.  It adds
\* none when JSON.parse throws, when payload?.data?.data is no non-empty
\* array (the early return), and when clips[0][0] is undefined (reading
\* clip.title throws); the catch block only logs.
CompleteMessages(data) ==
    LET parsed == JSONparse(data) IN
    IF ~parsed.ok THEN <<>>
    ELSE LET payload == parsed.value IN
         IF "data" \notin DOMAIN payload THEN <<>>
         ELSE LET clips == payload.data.data IN
              IF Len(clips) = 0 THEN <<>>
              ELSE IF clips[1] = <<>> THEN <<>>
              ELSE LET clip == clips[1][1] IN
                   <<Message("bot", "song",
                             IF clip.title # "" THEN clip.title ELSE clip.id)>>

\* lines 27-38: the click handler up to its first await
handleGenerateMusicFromEmotion ==
    /\ handlerPc = "idle"
    /\ ~isGeneratingMusic
    /\ messages' = setMessages(Message("user", "request", ""))
    /\ isGeneratingMusic' = setIsGeneratingMusic(TRUE)
    /\ handlerPc' = "awaitGenerate"
    /\ UNCHANGED <<es, timers, pollPc, attempts, statusCalls, now, abandoned>>
    /\ UNCHANGED serverVars

\* lines 38-69 and 137-142: from the completion of the await to the return
GenerateResumes(reply) ==
    /\ handlerPc = "awaitGenerate"
    /\ reply \in GenerateReplies
    /\ handlerPc' = "returned"
    /\ IF reply.kind # "ok" \/ Len(reply.clipIds) = 0
       THEN /\ messages' = setMessages(Message("bot", "error", ""))
            /\ isGeneratingMusic' = setIsGeneratingMusic(FALSE)
            /\ UNCHANGED <<es, timers>>
       ELSE /\ es' = "open"
            /\ timers' = MapSet(timers, "sse", now + SSE_TIMEOUT)
            /\ UNCHANGED <<messages, isGeneratingMusic>>
    /\ UNCHANGED <<pollPc, attempts, statusCalls, now, abandoned>>
    /\ UNCHANGED serverVars

\* the `complete` listener without its clearTimeout(sseTimeout)
OnCompleteKeepsTimer(data) ==
    /\ es = "open"
    /\ data \in EventData
    /\ messages' = IF abandoned THEN messages
                   ELSE messages \o CompleteMessages(data)
    /\ es' = "closed"
    /\ isGeneratingMusic' = setIsGeneratingMusic(FALSE)
    /\ UNCHANGED <<timers, handlerPc, pollPc, attempts, statusCalls, now,
                   abandoned>>
    /\ UNCHANGED serverVars

\* lines 71-96: the `complete` listener, run for an event with this data
OnComplete(data) ==
    /\ es = "open"
    /\ data \in EventData
    /\ timers' = MapDelete(timers, "sse")
    /\ messages' = IF abandoned THEN messages
                   ELSE messages \o CompleteMessages(data)
    /\ es' = "closed"
    /\ isGeneratingMusic' = setIsGeneratingMusic(FALSE)
    /\ UNCHANGED <<handlerPc, pollPc, attempts, statusCalls, now, abandoned>>
    /\ UNCHANGED serverVars

\* lines 98-101: the connection fails for good (the browser closes the
\* EventSource on a non-200 answer); the handler only logs
OnError ==
    /\ es = "open"
    /\ es' = "closed"
    /\ UNCHANGED <<handlerPc, isGeneratingMusic, messages, timers, pollPc,
                   attempts, statusCalls, now, abandoned>>
    /\ UNCHANGED serverVars

\* the loop head of `while (true)`: the next fetch is always issued
LoopHeadUnbounded(n) ==
    /\ pollPc' = "fetching"
    /\ statusCalls' = statusCalls + 1
    /\ UNCHANGED <<messages, isGeneratingMusic>>

\* the head of `while (attempts < maxAttempts)` reached with counter n:
\* the next fetch is issued, or the loop is left for lines 133-134
LoopHead(n) ==
    IF n < maxAttempts
    THEN /\ pollPc' = "fetching"
         /\ statusCalls' = statusCalls + 1
         /\ UNCHANGED <<messages, isGeneratingMusic>>
    ELSE /\ pollPc' = "returned"
         /\ messages' = setMessages(Message("bot", "timed out", ""))
         /\ isGeneratingMusic' = setIsGeneratingMusic(FALSE)
         /\ UNCHANGED statusCalls

\* lines 65-69 and 104-110: the push timeout fires and starts fallbackPoll
SseTimeoutFires ==
    /\ MapHas(timers, "sse")
    /\ timers["sse"] <= now
    /\ timers' = MapDelete(timers, "sse")
    /\ es' = "closed"
    /\ attempts' = 0
    /\ LoopHead(0)
    /\ UNCHANGED <<handlerPc, now, abandoned>>
    /\ UNCHANGED serverVars

\* json.found.forEach(clip => setMessages(...))
RECURSIVE FoundMessages(_)
FoundMessages(found) ==
    IF found = <<>> THEN <<>>
    ELSE LET clip == Head(found) IN
         <<Message("bot", "song",
                   IF clip.title # "" THEN clip.title
                   ELSE IF clip.id # "" THEN clip.id ELSE "Generated clip")>>
         \o FoundMessages(Tail(found))

\* fallbackPoll whose loop body ends at `attempts++`, without the sleep
StatusReturnsNoSleep(reply) ==
    /\ pollPc = "fetching"
    /\ reply \in StatusReplies
    /\ IF reply.kind = "ok" /\ Len(reply.found) > 0
       THEN /\ messages' = IF abandoned THEN messages
                           ELSE messages \o FoundMessages(reply.found)
            /\ isGeneratingMusic' = setIsGeneratingMusic(FALSE)
            /\ pollPc' = "returned"
            /\ UNCHANGED <<attempts, statusCalls>>
       ELSE /\ attempts' = attempts + 1
            /\ LoopHead(attempts + 1)
    /\ UNCHANGED <<timers, handlerPc, es, now, abandoned>>
    /\ UNCHANGED serverVars

\* lines 110-130: from the completion of the fetch to the return or to the
\* sleep
StatusReturns(reply) ==
    /\ pollPc = "fetching"
    /\ reply \in StatusReplies
    /\ IF reply.kind = "ok" /\ Len(reply.found) > 0
       THEN /\ messages' = IF abandoned THEN messages
                           ELSE messages \o FoundMessages(reply.found)
            /\ isGeneratingMusic' = setIsGeneratingMusic(FALSE)
            /\ pollPc' = "returned"
            /\ UNCHANGED <<attempts, timers>>
       ELSE /\ attempts' = attempts + 1
            /\ timers' = MapSet(timers, "sleep", now + pollInterval)
            /\ pollPc' = "sleeping"
            /\ UNCHANGED <<messages, isGeneratingMusic>>
    /\ UNCHANGED <<handlerPc, es, statusCalls, now, abandoned>>
    /\ UNCHANGED serverVars

\* lines 130-134 and 108-110: the sleep ends and the loop test runs
SleepEnds ==
    /\ pollPc = "sleeping"
    /\ MapHas(timers, "sleep")
    /\ timers["sleep"] <= now
    /\ timers' = MapDelete(timers, "sleep")
    /\ LoopHead(attempts)
    /\ UNCHANGED <<handlerPc, es, attempts, now, abandoned>>
    /\ UNCHANGED serverVars

\* time passes up to the next timer that is due.  Network calls complete
\* within the scheduling tolerance, so the clock stands while one is awaited.
Tick ==
    /\ handlerPc # "awaitGenerate"
    /\ pollPc # "fetching"
    /\ DOMAIN timers # {}
    /\ LET due == CHOOSE d \in {timers[t] : t \in DOMAIN timers} :
                     \A t \in DOMAIN timers : d <= timers[t]
       IN /\ now < due
          /\ now' = due
    /\ UNCHANGED <<handlerPc, isGeneratingMusic, messages, es, timers, pollPc,
                   attempts, statusCalls, abandoned>>
    /\ UNCHANGED serverVars

\* the phase of the wait strategy the client is in
Phase ==
    IF handlerPc = "idle" THEN "IDLE"
    ELSE IF handlerPc = "awaitGenerate" THEN "STARTED"
    ELSE IF es = "none" THEN "START_FAILED"
    ELSE IF pollPc \in {"fetching", "sleeping"} THEN "AWAITING_PULL"
    ELSE IF pollPc = "returned"
         THEN IF attempts < maxAttempts THEN "RESOLVED" ELSE "PULL_EXHAUSTED"
    ELSE IF MapHas(timers, "sse") THEN "AWAITING_PUSH"
    ELSE "RESOLVED"

\* the caller loses interest while the client waits on the push channel or
\* polls: the component is unmounted.  The code registers no cleanup, so nothing else changes.
Abandon ==
    /\ Phase \in {"AWAITING_PUSH", "AWAITING_PULL"}
    /\ ~abandoned
    /\ abandoned' = TRUE
    /\ UNCHANGED <<handlerPc, isGeneratingMusic, messages, es, timers, pollPc,
                   attempts, statusCalls, now>>
    /\ UNCHANGED serverVars

NextClient ==
    \/ handleGenerateMusicFromEmotion
    \/ \E reply \in GenerateReplies : GenerateResumes(reply)
    \/ \E data \in EventData : OnComplete(data)
    \/ OnError
    \/ SseTimeoutFires
    \/ \E reply \in StatusReplies : StatusReturns(reply)
    \/ SleepEnds
    \/ Tick
    \/ Abandon

SpecClient == Init /\ [][NextClient]_vars

\* The same client with the progress the browser's event loop gives it: a
\* timer that is due fires, time passes up to the next timer, and a fetch
\* that is awaited settles (it resolves or rejects).
FairClient ==
    /\ WF_vars(SseTimeoutFires)
    /\ WF_vars(SleepEnds)
    /\ WF_vars(Tick)
    /\ WF_vars(\E reply \in StatusReplies : StatusReturns(reply))

SpecClientFair == Init /\ [][NextClient]_vars /\ FairClient

TypeOK ==
    /\ DOMAIN resultsStore \subseteq Ids
    /\ DOMAIN subscribers \subseteq Ids
    /\ \A k \in DOMAIN subscribers : subscribers[k] \in Seq(Conns)
    /\ connState \in [Conns -> {"new", "open", "broken"}]
    /\ \A s \in StatusReqs : statusReq[s].pc \in {"idle", "awaiting"}
    /\ lastResponse.status \in {0, 200, 400}
    /\ nRequests \in 0..MaxRequests
    /\ \A res \in Conns : \A i \in 1..Len(channel[res]) :
          channel[res][i].data \in EventData
    /\ handlerPc \in {"idle", "awaitGenerate", "returned"}
    /\ es \in {"none", "open", "closed"}
    /\ pollPc \in {"none", "fetching", "sleeping", "returned"}
    /\ DOMAIN timers \subseteq {"sse", "sleep"}
    /\ attempts \in 0..maxAttempts
    /\ statusCalls \in 0..maxAttempts

(* ------------------------- auxiliary notions --------------------------- *)
Range(seq) == {seq[i] : i \in 1..Len(seq)}

\* number of `complete` frames for job j in a channel
RECURSIVE CountFor(_, _)
CountFor(ch, j) ==
    IF ch = <<>> THEN 0
    ELSE (IF Head(ch).job = j /\ Head(ch).event = "complete" THEN 1 ELSE 0)
         + CountFor(Tail(ch), j)

\* res is registered as a listener of j in registry reg
Registered(reg, j, res) == MapHas(reg, j) /\ res \in Range(reg[j])

\* the frames a step appends to the channel of res
NewFrames(res) ==
    IF Len(channel'[res]) > Len(channel[res])
    THEN {channel'[res][i] : i \in (Len(channel[res]) + 1)..Len(channel'[res])}
    ELSE {}

\* a webhook payload the specification calls malformed: no clip list, an
\* empty clip list, or no job identifier anywhere
Malformed(payload) == ~WellFormed(payload)

(* ------------------------------- claims -------------------------------- *)
\* C1: once a record is stored for job j, no later step (webhook or /status
\* resolution, in any interleaving) changes the record stored for j.
C1_FirstWriterWins ==
    [][\A j \in DOMAIN resultsStore :
          MapHas(resultsStore', j) /\ resultsStore'[j] = resultsStore[j]]_vars

\* C2: when a valid webhook for j is handled, every open connection that is
\* registered for j has exactly one `complete` frame for j in its channel
\* when the handler finishes.
C2_ExactlyOneDelivery ==
    [][\A payload \in Payloads, res \in Conns :
          (/\ Callback(payload)
           /\ ~Malformed(payload)
           /\ connState[res] = "open"
           /\ Registered(subscribers, TaskId(payload), res))
          => CountFor(channel'[res], TaskId(payload)) = 1]_vars

\* C3: no channel ever holds more than one `complete` frame for the same job.
C3_AtMostOnePerChannel ==
    \A res \in Conns, j \in Ids : CountFor(channel[res], j) <= 1

\* C4: an attach that names an already resolved job j does not register the
\* connection for j and writes the stored record of j to it during the attach.
C4_LateAttachFastPath ==
    [][\A res \in Conns :
          (connState[res] = "new" /\ connState'[res] = "open") =>
             \A raw \in RawParams :
                Events(res, raw) =>
                   \A j \in Range(ParseIds(raw)) \cap DOMAIN resultsStore :
                      /\ ~Registered(subscribers', j, res)
                      /\ Frame(j, "complete", JSONstringify(resultsStore[j]))
                            \in NewFrames(res)]_vars

\* C4, witness: the only attach so far came after the resolution of j, and
\* the connection holds the stored record of j without being registered.
C4_Witness ==
    /\ nRequests = 2
    /\ lastResponse.route = "/events"
    /\ lastResponse.status = 200
    /\ \E res \in Conns, j \in DOMAIN resultsStore :
          /\ connState[res] = "open"
          /\ j \in Range(connIds[res])
          /\ ~Registered(subscribers, j, res)
          /\ channel[res] = <<Frame(j, "complete", JSONstringify(resultsStore[j]))>>

\* C5: a malformed webhook payload changes neither the result store nor the
\* registry and writes to no channel.
C5_MalformedNoEffect ==
    [][\A payload \in Payloads :
          (Callback(payload) /\ Malformed(payload))
          => UNCHANGED <<resultsStore, subscribers, channel>>]_vars

\* C6: every webhook request is answered, with 400 for a malformed payload
\* and with 200 for a valid one.
C6_AlwaysAnswered ==
    [][\A payload \in Payloads :
          Callback(payload) =>
             /\ lastResponse'.route = "/suno/callback"
             /\ lastResponse'.status = IF Malformed(payload) THEN 400 ELSE 200]_vars

\* C7: every `complete` frame written for job j carries the record the
\* result store holds for j when the frame is written.
C7_PayloadIsStoredRecord ==
    [][\A res \in Conns : \A f \in NewFrames(res) :
          /\ MapHas(resultsStore', f.job)
          /\ f.data = JSONstringify(resultsStore'[f.job])]_vars

\* the ids of ids (in order) that satisfy Test
StoredIds(ids, store) == SelectSeq(ids, LAMBDA j : MapHas(store, j))
UnstoredIds(ids, store) == SelectSeq(ids, LAMBDA j : ~MapHas(store, j))

\* the clips of an upstream reply that report a job complete
ReportedComplete(reply) ==
    IF reply.kind = "reject" THEN {}
    ELSE {clip \in Range(ListOf(reply)) :
             clip.status = "complete" /\ ClipId(clip) # ""}

RejectReply == [kind |-> "reject", clips |-> <<>>]

\* the clips request s learned to be complete from its upstream query: the
\* ones its response reports beyond those it had read from the store
LearnedComplete(s) ==
    {lastResponse'.found[i] :
        i \in (Len(statusReq[s].found) + 1)..Len(lastResponse'.found)}

\* C8: the response of /status partitions the requested ids: found holds the
\* records that were already stored or that the upstream query reported
\* complete, and pending holds exactly the requested ids that are unresolved
\* when the response is sent.
C8_StatusPartition ==
    [][\A s \in StatusReqs, reply \in Replies :
          StatusResume(s, reply) =>
             /\ Range(statusReq[s].found) \subseteq Range(lastResponse'.found)
             /\ \A clip \in ReportedComplete(reply) :
                   clip \in Range(lastResponse'.found)
             /\ Range(lastResponse'.pending) =
                   {j \in Range(statusReq[s].ids) : ~MapHas(resultsStore', j)}]_vars

\* C9: when /status learns from the upstream query that j is complete, every
\* open connection registered for j gets a `complete` frame for j and the
\* registry entry of j is removed.
C9_StatusFansOut ==
    [][\A s \in StatusReqs :
          (statusReq[s].pc = "awaiting" /\ statusReq'[s].pc = "idle") =>
             \A clip \in LearnedComplete(s) :
                /\ ~MapHas(subscribers', ClipId(clip))
                /\ \A res \in Conns :
                      (connState[res] = "open"
                          /\ Registered(subscribers, ClipId(clip), res))
                      => \E f \in NewFrames(res) :
                            f.job = ClipId(clip) /\ f.event = "complete"]_vars

\* C9, witness: one attach, then one /status request whose upstream query
\* resolved a job of that connection, which was pushed to it and unregistered.
C9_Witness ==
    /\ nRequests = 2
    /\ lastResponse.route = "/status"
    /\ lastResponse.status = 200
    /\ lastResponse.found # <<>>
    /\ \E res \in Conns, j \in Ids :
          /\ connState[res] = "open"
          /\ j \in Range(connIds[res])
          /\ CountFor(channel[res], j) >= 1
          /\ MapHas(resultsStore, j)
          /\ ~MapHas(subscribers, j)

\* C10 as stated: when the upstream query fails, /status answers 200, leaves
\* the store and the registry alone and returns the already-known records as
\* found and all requested ids as pending.
C10_FailureAllPending ==
    [][\A s \in StatusReqs :
          StatusResume(s, RejectReply) =>
             /\ lastResponse'.status = 200
             /\ UNCHANGED <<resultsStore, subscribers>>
             /\ lastResponse'.found = statusReq[s].found
             /\ Range(lastResponse'.pending) = Range(statusReq[s].ids)]_vars

\* C10, amended: when the upstream query fails, /status answers 200, leaves
\* the store, the registry and the channels alone and returns what it read
\* before the query: as found the records of the requested ids that were
\* stored then, and as pending the requested ids that were not stored then.
C10_FailureDegrades ==
    [][/\ \A s \in StatusReqs :
             (statusReq[s].pc = "idle" /\ statusReq'[s].pc = "awaiting") =>
                \A raw \in RawParams :
                   StatusBegin(s, raw) =>
                      LET stored == StoredIds(ParseIds(raw), resultsStore) IN
                      /\ statusReq'[s].pending =
                            UnstoredIds(ParseIds(raw), resultsStore)
                      /\ statusReq'[s].found =
                            [i \in 1..Len(stored) |-> resultsStore[stored[i]]]
       /\ \A s \in StatusReqs :
             StatusResume(s, RejectReply) =>
                /\ lastResponse'.route = "/status"
                /\ lastResponse'.status = 200
                /\ UNCHANGED <<resultsStore, subscribers, channel>>
                /\ lastResponse'.found = statusReq[s].found
                /\ lastResponse'.pending = statusReq[s].pending]_vars

\* C10, witness: a /status request whose upstream query failed has answered
\* with a known record and a pending id.
C10_Witness ==
    /\ \E s \in StatusReqs : statusReq[s].pc = "idle" /\ statusReq[s].logged
    /\ lastResponse.route = "/status"
    /\ lastResponse.status = 200
    /\ lastResponse.found # <<>>
    /\ lastResponse.pending # <<>>
    /\ \A j \in Range(lastResponse.pending) : ~MapHas(resultsStore, j)

\* C13: whenever no server handler is in the middle of its execution (every
\* state of this model lies between two handler runs; a /status request
\* parked at its await holds only locals), no job identifier is both a key
\* of the result store and a key of the registry.
C13_StoredNotAwaited ==
    \A j \in Ids : ~(MapHas(resultsStore, j) /\ MapHas(subscribers, j))

\* j was awaited by an open connection, has been resolved and delivered to
\* it, and is in the store and no longer in the registry
C13_Witness ==
    \E j \in Ids, res \in Conns :
        /\ connState[res] = "open"
        /\ j \in Range(connIds[res])
        /\ CountFor(channel[res], j) = 1
        /\ MapHas(resultsStore, j)
        /\ ~MapHas(subscribers, j)
        /\ lastResponse.route = "/suno/callback"

\* the stored record and the listener list of k are the same before and
\* after the step
SameEntries(k) ==
    /\ MapHas(resultsStore', k) = MapHas(resultsStore, k)
    /\ MapHas(resultsStore, k) => resultsStore'[k] = resultsStore[k]
    /\ MapHas(subscribers', k) = MapHas(subscribers, k)
    /\ MapHas(subscribers, k) => subscribers'[k] = subscribers[k]

\* C15: resolving a job j, by the webhook or by /status, changes only j's
\* entries: for every other identifier k the stored record and the listener
\* list are the same after the step, so a listener of both j and k stays
\* registered for k.
C15_ResolveTouchesOnlyJob ==
    [][/\ (nRequests' = nRequests + 1 /\ lastResponse'.route = "/suno/callback")
             => \A payload \in Payloads :
                   Callback(payload) =>
                      \A k \in Ids \ {TaskId(payload)} : SameEntries(k)
       /\ \A s \in StatusReqs :
             (statusReq[s].pc = "awaiting" /\ statusReq'[s].pc = "idle") =>
                \A k \in Ids \ {ClipId(clip) : clip \in LearnedComplete(s)} :
                   SameEntries(k)]_vars

\* a connection that watched both j and k has been sent j's record by the
\* webhook and is still registered for k
C15_Witness ==
    \E j \in Ids, k \in Ids, res \in Conns :
        /\ j # k
        /\ connState[res] = "open"
        /\ {j, k} \subseteq Range(connIds[res])
        /\ CountFor(channel[res], j) = 1
        /\ MapHas(resultsStore, j)
        /\ ~MapHas(resultsStore, k)
        /\ Registered(subscribers, k, res)
        /\ lastResponse.route = "/suno/callback"

\* C16: during the fan-out for a job, a write that fails on one listener's
\* channel neither stops the delivery to the remaining listeners nor
\* propagates: the webhook handler still removes the job's registry entry
\* and answers 200, and every other listener of the job gets the delivery.
C16_WriteFailureIsolated ==
    [][(nRequests' = nRequests + 1 /\ lastResponse'.route = "/suno/callback")
          => \A payload \in Payloads :
                (/\ Callback(payload)
                 /\ payload.hasData /\ payload.isArray /\ TaskId(payload) # ""
                 /\ \E bad \in Conns :
                       /\ connState[bad] = "broken"
                       /\ Registered(subscribers, TaskId(payload), bad))
                => /\ ~MapHas(subscribers', TaskId(payload))
                   /\ lastResponse'.status = 200
                   /\ \A res \in Conns :
                         (connState[res] = "open"
                             /\ Registered(subscribers, TaskId(payload), res))
                         => \E f \in NewFrames(res) :
                               /\ f.job = TaskId(payload)
                               /\ f.event = "complete"]_vars

\* the webhook for j ran while a broken connection was listed before an open
\* one: the broken one got nothing, the open one got the event, j's entry
\* is gone and the answer was 200
C16_Witness ==
    \E j \in Ids :
        /\ connState["c1"] = "broken" /\ connState["c2"] = "open"
        /\ connIds["c1"] = <<j>> /\ connIds["c2"] = <<j>>
        /\ channel["c1"] = <<>>
        /\ CountFor(channel["c2"], j) = 1
        /\ ~MapHas(subscribers, j)
        /\ MapHas(resultsStore, j)
        /\ lastResponse.route = "/suno/callback" /\ lastResponse.status = 200

\* C17: the disconnect cleanup is idempotent and never fails: run on any
\* reachable registry for a live connection it yields a registry in which
\* the connection appears in no entry, a second run leaves that registry
\* as it is, and so does a run in which none of the connection's ids has a
\* registry entry.
C17_CleanupIdempotent ==
    \A res \in Conns :
        connState[res] \in {"open", "broken"} =>
            LET once == Cleanup(connIds[res], res, subscribers) IN
            /\ Cleanup(connIds[res], res, once) = once
            /\ \A j \in Ids : ~Registered(once, j, res)
            /\ (\A i \in 1..Len(connIds[res]) :
                   ~MapHas(subscribers, connIds[res][i]))
               => once = subscribers

\* a live connection about to be cleaned up whose ids are one already
\* resolved (no registry entry) and one it is still registered for
C17_Witness ==
    \E j \in Ids, k \in Ids, res \in Conns :
        /\ connState[res] \in {"open", "broken"}
        /\ {j, k} \subseteq Range(connIds[res])
        /\ ~MapHas(subscribers, j)
        /\ Registered(subscribers, k, res)
        /\ Cleanup(connIds[res], res, subscribers) # subscribers

\* C18: every key of the registry maps to a non-empty listener list; an
\* entry whose last listener has gone is removed, never left empty.
C18_NoEmptyEntry ==
    \A k \in DOMAIN subscribers : Len(subscribers[k]) > 0

\* the only connection ever attached registered for an unresolved job and
\* has gone away again: the registry has no entry left
C18_Witness ==
    /\ resultsStore = EmptyMap
    /\ nRequests = 1
    /\ lastResponse.route = "/events" /\ lastResponse.status = 200
    /\ \A res \in Conns : connState[res] = "new"
    /\ subscribers = EmptyMap

(* ---------------------------- client claims ---------------------------- *)
\* the order of the phases when no `complete` event is handled and no
\* /status answer has a found record
ChainEdges ==
    {<<"IDLE", "STARTED">>, <<"STARTED", "AWAITING_PUSH">>,
     <<"AWAITING_PUSH", "AWAITING_PULL">>, <<"AWAITING_PULL", "PULL_EXHAUSTED">>}

\* C11: with push timeout T = SSE_TIMEOUT, pull interval I = pollInterval and
\* attempt budget N = maxAttempts, a client that is started, gets no
\* `complete` event and no found record passes through STARTED,
\* AWAITING_PUSH, AWAITING_PULL and PULL_EXHAUSTED in that order, and when it
\* is in PULL_EXHAUSTED the clock stands at T + N*I, exactly N /status calls
\* have been made and the timeout failure is the last message.
C11_ExhaustedAfterTplusNI ==
    /\ [][(Phase' # Phase /\ Phase' \notin {"RESOLVED", "START_FAILED"})
             => <<Phase, Phase'>> \in ChainEdges]_vars
    /\ [](Phase = "PULL_EXHAUSTED" =>
             /\ now = SSE_TIMEOUT + maxAttempts * pollInterval
             /\ statusCalls = maxAttempts
             /\ ~abandoned =>
                   messages[Len(messages)] = Message("bot", "timed out", ""))

\* the polling loop has run out and the timeout failure has been reported
C11_Witness ==
    /\ Phase = "PULL_EXHAUSTED"
    /\ ~abandoned
    /\ ~isGeneratingMusic
    /\ messages = <<Message("user", "request", ""),
                    Message("bot", "timed out", "")>>

\* C12: once the caller has abandoned a request that was in AWAITING_PUSH or
\* AWAITING_PULL, the push channel is closed and no /status call is issued
\* any more: in no reachable state does an abandoned request hold an open
\* channel or go on polling.
C12_AbandonedHoldsNothing ==
    abandoned => (es # "open" /\ pollPc \notin {"fetching", "sleeping"})

\* the event data the server writes for records of well-formed webhooks and
\* of complete upstream clips
RecordEventData ==
    {JSONstringify(Wrapped(cl)) : cl \in SeqsUpTo(CallbackClips, MaxLen) \ {<<>>}}
    \cup {JSONstringify(u) : u \in CallbackClips \cup FoundRecords}

\* the messages announcing a record or the timeout failure
Outcomes ==
    SelectSeq(messages, LAMBDA m : m.sender = "bot" /\ m.text \in {"song", "timed out"})

\* C14: when the wait of a request that was started and not abandoned has
\* ended (the generating flag is cleared), exactly one outcome has been
\* surfaced, a message carrying the record or the timeout failure; in
\* particular handling a `complete` event that carries a record (pushed by
\* the webhook handler, pushed by /status, or written by the fast path)
\* adds the message carrying the record.
C14_ExactlyOneOutcome ==
    /\ []((handlerPc = "returned" /\ es # "none" /\ ~isGeneratingMusic
              /\ ~abandoned)
            => Len(Outcomes) = 1)
    /\ [][\A data \in RecordEventData :
             (OnComplete(data) /\ ~abandoned)
                => /\ Len(messages') = Len(messages) + 1
                   /\ messages'[Len(messages')].text = "song"]_vars

\* C19: the push phase and the pull phase never overlap and never both
\* produce an outcome: a step starts the polling loop only when the push
\* timeout is due, and it leaves the push channel closed; while the loop
\* runs or after it has run the channel is closed; and a step that handles
\* a `complete` event leaves no push timeout pending, so that the loop is
\* never started afterwards.
C19_PushThenPull ==
    /\ [](pollPc # "none" => (es = "closed" /\ ~MapHas(timers, "sse")))
    /\ [][(pollPc = "none" /\ pollPc' # "none")
             => /\ MapHas(timers, "sse") /\ timers["sse"] <= now
                /\ es' = "closed"]_vars
    /\ [][\A data \in EventData :
             OnComplete(data) => ~MapHas(timers', "sse")]_vars
    /\ [][(pollPc = "none" /\ ~MapHas(timers, "sse") /\ handlerPc = "returned")
             => pollPc' = "none"]_vars

\* a `complete` event has been handled in the push phase: the channel is
\* closed, the wait is over and the polling loop has not been started
C19_Witness ==
    /\ handlerPc = "returned"
    /\ es = "closed"
    /\ ~isGeneratingMusic
    /\ ~abandoned
    /\ pollPc = "none"
    /\ ~MapHas(timers, "sse")
    /\ Len(Outcomes) = 1

=============================================================================
